---- MODULE Spec2Model ----
(***************************************************************************)
(* Interval-training timer (App.tsx): the phase engine (firstPhase,        *)
(* computeNext, computePrev, totalDuration) and the session controller     *)
(* (start, pauseResume, reset, skip, back, the requestAnimationFrame tick  *)
(* and the expiry effect).                                                 *)
(*                                                                         *)
(* Three specifications share the module:                                  *)
(*   Spec        the controller, driven by its handlers, the wall clock    *)
(*               and the polling loop, the Settings left as loaded;        *)
(*   SpecEdit    the controller started from defaultSettings, the inputs   *)
(*               of the settings panel among its handlers;                 *)
(*   SpecEngine  the pure engine functions applied to inputs drawn from    *)
(*               bounded sets, unreachable phase/index pairs included.     *)
(*                                                                         *)
(* Date.now() is the variable clock (milliseconds).  State updaters are    *)
(* taken as invoked once per update, as a production build does.          *)
(***************************************************************************)
EXTENDS Integers, Sequences, FiniteSets, TLC

(* ------------------------------ bounds --------------------------------- *)
\* durations range over 0..MaxSec seconds
MaxSec == 2
\* intervals ranges over 0..MaxIntervals
MaxIntervals == 2
\* the wall clock runs from 0 to MaxClockSteps half seconds
MaxClockSteps == 6
\* edits of the settings panel in one run of the editing specification
MaxEdits == 1

(* ------------------------- program constants --------------------------- *)
MsPerSec == 1000

HalfSec == MsPerSec \div 2
MaxClock == MaxClockSteps * HalfSec
\* applications of computeNext the engine specification allows in a row
MaxSteps == 2 * MaxIntervals + 4

Max(a, b) == IF a >= b THEN a ELSE b
Min(a, b) == IF a <= b THEN a ELSE b
\* Math.ceil(ms / 1000) on integers, negative ones included
CeilSec(ms) == -((-ms) \div MsPerSec)

Phases == {"idle", "warmup", "work", "rest", "cooldown", "done"}

\* type Settings, the numeric fields: every combination within the bounds
SettingsSet ==
  [warmupSec : 0..MaxSec, workSec : 0..MaxSec, restSec : 0..MaxSec,
   intervals : 0..MaxIntervals, cooldownSec : 0..MaxSec]

\* the Settings a session of the controller specification is run with: every stage
\* absent or present, work longer than rest and cooldown longer than warmup
SessionSettings ==
  [warmupSec : {0, 1}, workSec : {0, MaxSec}, restSec : {0, 1},
   intervals : 0..MaxIntervals, cooldownSec : {0, MaxSec}]

\* defaultSettings, every stage present, scaled to the bounds
defaultSettings ==
  [warmupSec |-> 1, workSec |-> MaxSec, restSec |-> 1, intervals |-> MaxIntervals,
   cooldownSec |-> MaxSec]

\* the numeric fields of Settings
Fields == {"warmupSec", "workSec", "restSec", "intervals", "cooldownSec"}

\* an object with no field
NoFields == [f \in {} |-> 0]

\* the objects a stored JSON text may denote: any of the fields present or missing
StoredObjects == UNION {[D -> 0..MaxSec] : D \in SUBSET Fields}

\* what localStorage may hold under the key: nothing, the empty string, a text that
\* is not JSON, or the JSON text of an object
StoredItems ==
  {[kind |-> k, value |-> NoFields] : k \in {"absent", "empty", "garbage"}}
    \cup {[kind |-> "object", value |-> o] : o \in StoredObjects}

\* a mutant: the parsed object is laid over the initial value, field by field
useLocalStorageMerged(item, initial) ==
  IF item.kind \in {"absent", "empty", "garbage"} THEN initial
  ELSE [f \in DOMAIN initial |->
          IF f \in DOMAIN item.value THEN item.value[f] ELSE initial[f]]

\* the initializer of useLocalStorage: raw ? JSON.parse(raw) : initial, and initial
\* when JSON.parse throws; a parsed object is returned as it is
useLocalStorage(item, initial) ==
  IF item.kind \in {"absent", "empty"} THEN initial
  ELSE IF item.kind = "garbage" THEN initial
  ELSE item.value

(* ------------------------ settings panel inputs ------------------------ *)
\* Math.min(359_999, ...) in secondsFrom
MaxSeconds == 359999
\* min={1} max={50} of the intervals input
IntervalsMin == 1
IntervalsMax == 50

\* A number that need not be whole is held in halves: 5 stands for 2.5.  A text is
\* empty, something Number() reads as NaN, a decimal number, or 'Infinity'.
EmptyText == [kind |-> "empty", halves |-> 0]
TextOf(h) == [kind |-> "number", halves |-> h]

\* texts typed into a TimeInput field (plain text inputs)
TimeTexts ==
  {EmptyText, [kind |-> "garbage", halves |-> 0], [kind |-> "infinity", halves |-> 0]}
    \cup {TextOf(h) : h \in {-3, 0, 1, 3, 2 * 59, 2 * 5999, 2 * 6000}}

\* texts typed into the intervals field
NumberTexts ==
  {EmptyText, [kind |-> "garbage", halves |-> 0]}
    \cup {TextOf(h) : h \in {-2, 0, 1, 2, 3, 5, 2 * 50 - 1, 2 * 50, 2 * 50 + 1}}

\* Number(text): NaN, Infinity or a finite number of halves
NumberOf(text) ==
  CASE text.kind = "empty" -> [kind |-> "finite", halves |-> 0]
    [] text.kind = "garbage" -> [kind |-> "nan", halves |-> 0]
    [] text.kind = "infinity" -> [kind |-> "inf", halves |-> 0]
    [] OTHER -> [kind |-> "finite", halves |-> text.halves]

\* Math.max(0, Number(text) || 0)
nonNegative(text) ==
  LET n == NumberOf(text) IN
  IF n.kind = "nan" THEN [kind |-> "finite", halves |-> 0]
  ELSE IF n.kind = "inf" THEN n
  ELSE [kind |-> "finite", halves |-> Max(0, n.halves)]

\* Math.round of a number of halves: a half rounds up
round(h) == (h + 1) \div 2

\* secondsFrom(minStr, secStr), a whole number
secondsFrom(minStr, secStr) ==
  LET m == nonNegative(minStr)
      sc == nonNegative(secStr)
  IN  IF m.kind = "inf" \/ sc.kind = "inf" THEN MaxSeconds
      ELSE Min(MaxSeconds, round(m.halves) * 60 + round(sc.halves))

\* e.target.value of an input of type number: the empty string unless the text is a
\* valid number
numberValue(text) == IF text.kind = "number" THEN text ELSE EmptyText

\* a mutant: the intervals input rounds before it clamps
clampIntervalsRounded(text) ==
  2 * Max(IntervalsMin, Min(IntervalsMax, round(NumberOf(numberValue(text)).halves)))

\* NumberInput's onChange: Math.max(min, Math.min(max, Number(e.target.value))),
\* in halves
clampIntervals(text) ==
  Max(2 * IntervalsMin, Min(2 * IntervalsMax, NumberOf(numberValue(text)).halves))

\* useState<Running | null>(null): the absent session
Null ==
  [phase |-> "null", intervalIndex |-> 0, remaining |-> 0, totalForPhase |-> 0,
   startedAtMs |-> 0, targetEndMs |-> 0]

(* --------------------------- phase engine ------------------------------ *)
\* the object literal shared by firstPhase and the mk closures; t is Date.now()
mk(phase, secs, intervalIndex, t) ==
  [phase |-> phase, intervalIndex |-> intervalIndex, remaining |-> secs,
   totalForPhase |-> secs, startedAtMs |-> t, targetEndMs |-> t + secs * MsPerSec]

\* a mutant: no rest is counted after the last interval
totalDurationLastRest(s) ==
  LET intervals == IF s.intervals > 0
                   THEN s.workSec * s.intervals
                        + (IF s.restSec > 0 THEN s.restSec ELSE 0) * (s.intervals - 1)
                   ELSE 0
  IN  (IF s.warmupSec > 0 THEN s.warmupSec ELSE 0) + intervals
      + (IF s.cooldownSec > 0 THEN s.cooldownSec ELSE 0)

totalDuration(s) ==
  LET intervals == IF s.intervals > 0
                   THEN (s.workSec + (IF s.restSec > 0 THEN s.restSec ELSE 0)) * s.intervals
                   ELSE 0
  IN  (IF s.warmupSec > 0 THEN s.warmupSec ELSE 0) + intervals
      + (IF s.cooldownSec > 0 THEN s.cooldownSec ELSE 0)

\* a mutant: with no stage left the cooldown is entered all the same
firstPhaseNoDone(s, t) ==
  IF s.warmupSec > 0 THEN mk("warmup", s.warmupSec, 0, t)
  ELSE IF s.intervals > 0 /\ s.workSec > 0 THEN mk("work", s.workSec, 0, t)
  ELSE mk("cooldown", s.cooldownSec, 0, t)

firstPhase(s, t) ==
  IF s.warmupSec > 0 THEN mk("warmup", s.warmupSec, 0, t)
  ELSE IF s.intervals > 0 /\ s.workSec > 0 THEN mk("work", s.workSec, 0, t)
  ELSE IF s.cooldownSec > 0 THEN mk("cooldown", s.cooldownSec, 0, t)
  ELSE mk("done", 0, 0, t)

\* a mutant: the index bound is tested before restSec, so the last rest is skipped
computeNextBoundFirst(prev, s, t) ==
  CASE prev.phase = "warmup" ->
         IF s.intervals > 0 /\ s.workSec > 0 THEN mk("work", s.workSec, 0, t)
         ELSE IF s.cooldownSec > 0 THEN mk("cooldown", s.cooldownSec, prev.intervalIndex, t)
         ELSE mk("done", 0, prev.intervalIndex, t)
    [] prev.phase = "work" ->
         LET nextIndex == prev.intervalIndex + 1 IN
         IF nextIndex < s.intervals /\ s.restSec > 0
           THEN mk("rest", s.restSec, prev.intervalIndex, t)
         ELSE IF nextIndex < s.intervals THEN mk("work", s.workSec, nextIndex, t)
         ELSE IF s.cooldownSec > 0 THEN mk("cooldown", s.cooldownSec, prev.intervalIndex, t)
         ELSE mk("done", 0, prev.intervalIndex, t)
    [] prev.phase = "rest" ->
         LET nextIndex == prev.intervalIndex + 1 IN
         IF nextIndex < s.intervals THEN mk("work", s.workSec, nextIndex, t)
         ELSE IF s.cooldownSec > 0 THEN mk("cooldown", s.cooldownSec, prev.intervalIndex, t)
         ELSE mk("done", 0, prev.intervalIndex, t)
    [] prev.phase \in {"cooldown", "done"} -> mk("done", 0, prev.intervalIndex, t)
    [] OTHER -> firstPhase(s, t)

\* a mutant: work is always followed by rest, restSec = 0 included
computeNextAlwaysRest(prev, s, t) ==
  CASE prev.phase = "warmup" ->
         IF s.intervals > 0 /\ s.workSec > 0 THEN mk("work", s.workSec, 0, t)
         ELSE IF s.cooldownSec > 0 THEN mk("cooldown", s.cooldownSec, prev.intervalIndex, t)
         ELSE mk("done", 0, prev.intervalIndex, t)
    [] prev.phase = "work" ->
         LET nextIndex == prev.intervalIndex + 1 IN
         IF s.restSec >= 0 THEN mk("rest", s.restSec, prev.intervalIndex, t)
         ELSE IF nextIndex < s.intervals THEN mk("work", s.workSec, nextIndex, t)
         ELSE IF s.cooldownSec > 0 THEN mk("cooldown", s.cooldownSec, prev.intervalIndex, t)
         ELSE mk("done", 0, prev.intervalIndex, t)
    [] prev.phase = "rest" ->
         LET nextIndex == prev.intervalIndex + 1 IN
         IF nextIndex < s.intervals THEN mk("work", s.workSec, nextIndex, t)
         ELSE IF s.cooldownSec > 0 THEN mk("cooldown", s.cooldownSec, prev.intervalIndex, t)
         ELSE mk("done", 0, prev.intervalIndex, t)
    [] prev.phase \in {"cooldown", "done"} -> mk("done", 0, prev.intervalIndex, t)
    [] OTHER -> firstPhase(s, t)

\* a mutant: rest returns to work at the same index, so work and rest alternate forever
computeNextNoIncrement(prev, s, t) ==
  CASE prev.phase = "warmup" ->
         IF s.intervals > 0 /\ s.workSec > 0 THEN mk("work", s.workSec, 0, t)
         ELSE IF s.cooldownSec > 0 THEN mk("cooldown", s.cooldownSec, prev.intervalIndex, t)
         ELSE mk("done", 0, prev.intervalIndex, t)
    [] prev.phase = "work" ->
         LET nextIndex == prev.intervalIndex + 1 IN
         IF s.restSec > 0 THEN mk("rest", s.restSec, prev.intervalIndex, t)
         ELSE IF nextIndex < s.intervals THEN mk("work", s.workSec, nextIndex, t)
         ELSE IF s.cooldownSec > 0 THEN mk("cooldown", s.cooldownSec, prev.intervalIndex, t)
         ELSE mk("done", 0, prev.intervalIndex, t)
    [] prev.phase = "rest" ->
         LET nextIndex == prev.intervalIndex IN
         IF nextIndex < s.intervals THEN mk("work", s.workSec, nextIndex, t)
         ELSE IF s.cooldownSec > 0 THEN mk("cooldown", s.cooldownSec, prev.intervalIndex, t)
         ELSE mk("done", 0, prev.intervalIndex, t)
    [] prev.phase \in {"cooldown", "done"} -> mk("done", 0, prev.intervalIndex, t)
    [] OTHER -> firstPhase(s, t)

\* a mutant: the phase entered from rest is anchored with the rest duration
computeNextWrongSecs(prev, s, t) ==
  CASE prev.phase = "warmup" ->
         IF s.intervals > 0 /\ s.workSec > 0 THEN mk("work", s.workSec, 0, t)
         ELSE IF s.cooldownSec > 0 THEN mk("cooldown", s.cooldownSec, prev.intervalIndex, t)
         ELSE mk("done", 0, prev.intervalIndex, t)
    [] prev.phase = "work" ->
         LET nextIndex == prev.intervalIndex + 1 IN
         IF s.restSec > 0 THEN mk("rest", s.restSec, prev.intervalIndex, t)
         ELSE IF nextIndex < s.intervals THEN mk("work", s.workSec, nextIndex, t)
         ELSE IF s.cooldownSec > 0 THEN mk("cooldown", s.cooldownSec, prev.intervalIndex, t)
         ELSE mk("done", 0, prev.intervalIndex, t)
    [] prev.phase = "rest" ->
         LET nextIndex == prev.intervalIndex + 1 IN
         IF nextIndex < s.intervals THEN mk("work", s.restSec, nextIndex, t)
         ELSE IF s.cooldownSec > 0 THEN mk("cooldown", s.cooldownSec, prev.intervalIndex, t)
         ELSE mk("done", 0, prev.intervalIndex, t)
    [] prev.phase \in {"cooldown", "done"} -> mk("done", 0, prev.intervalIndex, t)
    [] OTHER -> firstPhase(s, t)

\* mk's intervalIndex defaults to prev.intervalIndex where the call gives none
computeNext(prev, s, t) ==
  CASE prev.phase = "warmup" ->
         IF s.intervals > 0 /\ s.workSec > 0 THEN mk("work", s.workSec, 0, t)
         ELSE IF s.cooldownSec > 0 THEN mk("cooldown", s.cooldownSec, prev.intervalIndex, t)
         ELSE mk("done", 0, prev.intervalIndex, t)
    [] prev.phase = "work" ->
         LET nextIndex == prev.intervalIndex + 1 IN
         IF s.restSec > 0 THEN mk("rest", s.restSec, prev.intervalIndex, t)
         ELSE IF nextIndex < s.intervals THEN mk("work", s.workSec, nextIndex, t)
         ELSE IF s.cooldownSec > 0 THEN mk("cooldown", s.cooldownSec, prev.intervalIndex, t)
         ELSE mk("done", 0, prev.intervalIndex, t)
    [] prev.phase = "rest" ->
         LET nextIndex == prev.intervalIndex + 1 IN
         IF nextIndex < s.intervals THEN mk("work", s.workSec, nextIndex, t)
         ELSE IF s.cooldownSec > 0 THEN mk("cooldown", s.cooldownSec, prev.intervalIndex, t)
         ELSE mk("done", 0, prev.intervalIndex, t)
    [] prev.phase \in {"cooldown", "done"} -> mk("done", 0, prev.intervalIndex, t)
    [] OTHER -> firstPhase(s, t)

\* a mutant: back from the first work without warmup steps the index down all the same
computePrevNoFirstGuard(prev, s, t) ==
  CASE prev.phase = "work" ->
         IF prev.intervalIndex = 0
           THEN IF s.warmupSec > 0 THEN mk("warmup", s.warmupSec, 0, t)
                ELSE mk("work", s.workSec, prev.intervalIndex - 1, t)
         ELSE IF s.restSec > 0 THEN mk("rest", s.restSec, prev.intervalIndex - 1, t)
         ELSE mk("work", s.workSec, prev.intervalIndex - 1, t)
    [] prev.phase = "rest" -> mk("work", s.workSec, prev.intervalIndex, t)
    [] prev.phase = "cooldown" ->
         IF s.intervals > 0 /\ s.workSec > 0
           THEN mk("work", s.workSec, Max(0, s.intervals - 1), t)
         ELSE IF s.warmupSec > 0 THEN mk("warmup", s.warmupSec, 0, t)
         ELSE mk("cooldown", s.cooldownSec, 0, t)
    [] prev.phase = "warmup" -> mk("warmup", s.warmupSec, 0, t)
    [] OTHER -> firstPhase(s, t)

\* a mutant: back from work enters the rest of the same index
computePrevRestSameIndex(prev, s, t) ==
  CASE prev.phase = "work" ->
         IF prev.intervalIndex = 0
           THEN IF s.warmupSec > 0 THEN mk("warmup", s.warmupSec, 0, t)
                ELSE mk("work", s.workSec, 0, t)
         ELSE IF s.restSec > 0 THEN mk("rest", s.restSec, prev.intervalIndex, t)
         ELSE mk("work", s.workSec, prev.intervalIndex - 1, t)
    [] prev.phase = "rest" -> mk("work", s.workSec, prev.intervalIndex, t)
    [] prev.phase = "cooldown" ->
         IF s.intervals > 0 /\ s.workSec > 0
           THEN mk("work", s.workSec, Max(0, s.intervals - 1), t)
         ELSE IF s.warmupSec > 0 THEN mk("warmup", s.warmupSec, 0, t)
         ELSE mk("cooldown", s.cooldownSec, 0, t)
    [] prev.phase = "warmup" -> mk("warmup", s.warmupSec, 0, t)
    [] OTHER -> firstPhase(s, t)

\* a mutant: back from cooldown enters the first work, not the last
computePrevCooldownFirstWork(prev, s, t) ==
  CASE prev.phase = "work" ->
         IF prev.intervalIndex = 0
           THEN IF s.warmupSec > 0 THEN mk("warmup", s.warmupSec, 0, t)
                ELSE mk("work", s.workSec, 0, t)
         ELSE IF s.restSec > 0 THEN mk("rest", s.restSec, prev.intervalIndex - 1, t)
         ELSE mk("work", s.workSec, prev.intervalIndex - 1, t)
    [] prev.phase = "rest" -> mk("work", s.workSec, prev.intervalIndex, t)
    [] prev.phase = "cooldown" ->
         IF s.intervals > 0 /\ s.workSec > 0
           THEN mk("work", s.workSec, 0, t)
         ELSE IF s.warmupSec > 0 THEN mk("warmup", s.warmupSec, 0, t)
         ELSE mk("cooldown", s.cooldownSec, 0, t)
    [] prev.phase = "warmup" -> mk("warmup", s.warmupSec, 0, t)
    [] OTHER -> firstPhase(s, t)

\* a mutant: back from cooldown enters the last work whether or not workSec > 0
computePrevCooldownAnyWork(prev, s, t) ==
  CASE prev.phase = "work" ->
         IF prev.intervalIndex = 0
           THEN IF s.warmupSec > 0 THEN mk("warmup", s.warmupSec, 0, t)
                ELSE mk("work", s.workSec, 0, t)
         ELSE IF s.restSec > 0 THEN mk("rest", s.restSec, prev.intervalIndex - 1, t)
         ELSE mk("work", s.workSec, prev.intervalIndex - 1, t)
    [] prev.phase = "rest" -> mk("work", s.workSec, prev.intervalIndex, t)
    [] prev.phase = "cooldown" ->
         IF s.intervals > 0
           THEN mk("work", s.workSec, Max(0, s.intervals - 1), t)
         ELSE IF s.warmupSec > 0 THEN mk("warmup", s.warmupSec, 0, t)
         ELSE mk("cooldown", s.cooldownSec, 0, t)
    [] prev.phase = "warmup" -> mk("warmup", s.warmupSec, 0, t)
    [] OTHER -> firstPhase(s, t)

\* a mutant: back from rest enters the work of the interval before
computePrevRestEarlierWork(prev, s, t) ==
  CASE prev.phase = "work" ->
         IF prev.intervalIndex = 0
           THEN IF s.warmupSec > 0 THEN mk("warmup", s.warmupSec, 0, t)
                ELSE mk("work", s.workSec, 0, t)
         ELSE IF s.restSec > 0 THEN mk("rest", s.restSec, prev.intervalIndex - 1, t)
         ELSE mk("work", s.workSec, prev.intervalIndex - 1, t)
    [] prev.phase = "rest" -> mk("work", s.workSec, Max(0, prev.intervalIndex - 1), t)
    [] prev.phase = "cooldown" ->
         IF s.intervals > 0 /\ s.workSec > 0
           THEN mk("work", s.workSec, Max(0, s.intervals - 1), t)
         ELSE IF s.warmupSec > 0 THEN mk("warmup", s.warmupSec, 0, t)
         ELSE mk("cooldown", s.cooldownSec, 0, t)
    [] prev.phase = "warmup" -> mk("warmup", s.warmupSec, 0, t)
    [] OTHER -> firstPhase(s, t)

computePrev(prev, s, t) ==
  CASE prev.phase = "work" ->
         IF prev.intervalIndex = 0
           THEN IF s.warmupSec > 0 THEN mk("warmup", s.warmupSec, 0, t)
                ELSE mk("work", s.workSec, 0, t)
         ELSE IF s.restSec > 0 THEN mk("rest", s.restSec, prev.intervalIndex - 1, t)
         ELSE mk("work", s.workSec, prev.intervalIndex - 1, t)
    [] prev.phase = "rest" -> mk("work", s.workSec, prev.intervalIndex, t)
    [] prev.phase = "cooldown" ->
         IF s.intervals > 0 /\ s.workSec > 0
           THEN mk("work", s.workSec, Max(0, s.intervals - 1), t)
         ELSE IF s.warmupSec > 0 THEN mk("warmup", s.warmupSec, 0, t)
         ELSE mk("cooldown", s.cooldownSec, 0, t)
    [] prev.phase = "warmup" -> mk("warmup", s.warmupSec, 0, t)
    [] OTHER -> firstPhase(s, t)

(* ------------------------- session controller -------------------------- *)
VARIABLES
  settings,     \* useLocalStorage('settings'): the numeric fields
  running,      \* useState<Running | null>
  paused,       \* useState(false)
  now,          \* useState(() => Date.now()): the last clock reading stored by tick
  clock,        \* Date.now(), the wall clock
  raf,          \* the requestAnimationFrame callbacks of the tick effect pending
  effect,       \* the expiry effect: "none", "scheduled" (by the commit of a tick,
                \* not yet flushed) or "flushing" (it runs before anything else)
  lastOp,       \* history: the handler or step that ran last
  prevPos,      \* history: <<phase, intervalIndex>> of running before that step
  notified,     \* history: the phases notifyPhase was called with in that step
  visited,      \* history: <<phase, intervalIndex>> entered since start by start and
                \* nextPhase alone; <<>> with no session or once back was used
  pauseSnap,    \* history: the instant of the pause just taken and the milliseconds
                \* then left to targetEndMs
  wakeGap,      \* history: at a tick, the time since the clock reading stored before
  startSettings, \* history: the Settings the session was started with; the
                \* current Settings while there is no session
  edits,        \* the edits made in the settings panel so far
  ranMs,        \* history, kept under SpecRun and -1 elsewhere: the milliseconds
                \* the session has spent unpaused in its phase since it entered it
  eng,          \* engine specification: the Running value handed to the functions
  engPrev,      \* engine specification: <<phase, intervalIndex>> of the argument of
                \* the last application
  engOp,        \* engine specification: the function applied last
  engNow,       \* engine specification: Date.now() of the last application
  engSteps,     \* engine specification: applications of computeNext so far
  engFrom,      \* engine specification: the phase the applications started from
  engTotal,     \* engine specification: the last result of totalDuration
  engChain,     \* engine specification: whether the applications began with
                \* firstPhase, and then the sum of totalForPhase over their results
  stored,       \* loading specification: the item localStorage holds under 'settings'
  typed,        \* input specification: the texts of the minutes, seconds and
                \* intervals inputs of the settings panel
  entered       \* input specification: the number last handed to onChange, in halves

ctlVars ==
  <<running, paused, now, clock, raf, effect, lastOp, prevPos, notified,
    visited, pauseSnap, wakeGap, startSettings, edits, ranMs>>
engVars == <<eng, engPrev, engOp, engNow, engSteps, engFrom, engTotal, engChain>>
loadVars == <<stored, typed, entered>>
vars == <<settings, ctlVars, engVars, loadVars>>

NoSnap == [at |-> -1, remMs |-> 0]
NoChain == [first |-> FALSE, sum |-> 0]
pos(run) == <<run.phase, run.intervalIndex>>

\* const remaining = running ? Math.max(0, Math.ceil((targetEndMs - now) / 1000)) : 0
remainingOf(run, nw) ==
  IF run = Null THEN 0 ELSE Max(0, CeilSec(run.targetEndMs - nw))

\* the tick effect requests a frame exactly when its body passes the early return
tickLoop(run, psd) == run # Null /\ ~psd

\* a mutant: the effect returns no cleanup, so the frame requested last is never
\* cancelled
tickEffectNoCancel(count, run, psd) ==
  count + (IF tickLoop(run, psd) THEN 1 ELSE 0)

\* the frame callbacks pending once the tick effect has been re-evaluated for run
\* and psd: the cleanup its last evaluation returned cancels the frame requested
\* last, then the body requests one if it passes the early return
tickEffect(count, run, psd) ==
  (IF tickLoop(running, paused) THEN count - 1 ELSE count)
    + (IF tickLoop(run, psd) THEN 1 ELSE 0)

\* a mutant: the expiry effect waits for the remaining seconds to fall below zero
expiryDueStrict(run, psd, nw) ==
  run # Null /\ ~psd /\ remainingOf(run, nw) < 0 /\ run.phase # "done"

\* the expiry effect's condition, on the values of the render that scheduled it
expiryDue(run, psd, nw) ==
  run # Null /\ ~psd /\ remainingOf(run, nw) <= 0 /\ run.phase # "done"

\* the updater nextPhase hands to setRunning
nextPhaseUpdater(prev, s, t) ==
  IF prev = Null THEN prev
  ELSE IF prev.phase = "done" THEN prev
  ELSE computeNext(prev, s, t)

\* a mutant: the hook is called with the phase that was left
nextPhaseNotesLeft(prev, s, t) ==
  IF prev = Null \/ prev.phase = "done" THEN <<>>
  ELSE IF computeNext(prev, s, t).phase # prev.phase THEN <<prev.phase>>
  ELSE <<>>

\* the calls of notifyPhase that updater makes
nextPhaseNotes(prev, s, t) ==
  IF prev = Null \/ prev.phase = "done" THEN <<>>
  ELSE IF computeNext(prev, s, t).phase # prev.phase
         THEN <<computeNext(prev, s, t).phase>>
  ELSE <<>>

\* visited after the updater ran on prev
nextPhaseVisited(prev, s, t) ==
  IF prev = Null \/ prev.phase = "done" \/ visited = <<>> THEN visited
  ELSE Append(visited, pos(computeNext(prev, s, t)))

\* ranMs after the step op, which leaves the session as run: the time counts while
\* a phase other than done runs unpaused, and starts again at 0 whenever start,
\* nextPhase, back or reset replaces the Running value
ranAfter(op, run) ==
  IF ranMs < 0 THEN ranMs
  ELSE IF op = "advance"
         THEN IF tickLoop(running, paused) /\ running.phase # "done"
                THEN ranMs + HalfSec ELSE ranMs
  ELSE IF op \in {"pause", "resume"} \/ run = running THEN ranMs
  ELSE 0

\* the commit of a handler's updates: the tick effect is re-evaluated, a scheduled
\* expiry effect is flushed before the render, and the render's own expiry effect
\* follows when its condition holds
Commit(op, run, psd, notes, vis, snap) ==
  /\ running' = run
  /\ paused' = psd
  /\ raf' = tickEffect(raf, run, psd)
  /\ effect' = IF effect = "scheduled" \/ expiryDue(run, psd, now)
               THEN "flushing" ELSE "none"
  /\ lastOp' = op
  /\ prevPos' = pos(running)
  /\ notified' = notes
  /\ visited' = vis
  /\ pauseSnap' = snap
  /\ wakeGap' = 0
  /\ startSettings' = IF op = "start" \/ run = Null THEN settings ELSE startSettings
  /\ ranMs' = ranAfter(op, run)
  /\ UNCHANGED <<settings, now, clock, edits, engVars, loadVars>>

\* a handler may run before an expiry effect scheduled by a tick has been flushed;
\* the flush then precedes the render of the handler's updates
HandlerReady == effect \in {"none", "scheduled"}

\* the engine's inputs: a Running value of every phase and index, anchored at 0
EngInputs ==
  {mk(ph, 0, i, 0) : ph \in Phases, i \in 0..MaxIntervals}

\* Date.now() at an application of an engine function
EngTimes == {HalfSec, MsPerSec}

\* no item is stored: the Settings are those Init draws
LoadIdle == stored = [kind |-> "absent", value |-> NoFields]

\* nothing is typed in the settings panel
InputIdle ==
  /\ typed = [min |-> EmptyText, sec |-> EmptyText, intervals |-> EmptyText]
  /\ entered = [by |-> "none", halves |-> 0]

\* the time a phase has run is not kept
RunIdle == ranMs = -1

\* the App component after its first render
CtlInit ==
  /\ running = Null
  /\ paused = FALSE
  /\ now = 0
  /\ clock = 0
  /\ raf = 0
  /\ effect = "none"
  /\ lastOp = "init"
  /\ prevPos = pos(Null)
  /\ notified = <<>>
  /\ visited = <<>>
  /\ pauseSnap = NoSnap
  /\ wakeGap = 0
  /\ startSettings = settings
  /\ edits = 0

Init ==
  /\ settings \in SessionSettings
  /\ CtlInit
  /\ eng = Null
  /\ engPrev = pos(Null)
  /\ engOp = "init"
  /\ engNow = 0
  /\ engSteps = 0
  /\ engFrom = "null"
  /\ engTotal = 0
  /\ engChain = NoChain
  /\ RunIdle
  /\ LoadIdle
  /\ InputIdle

\* the wall clock moves on; nothing of the program runs (a suspended or
\* throttled tab is a run of these steps with no Tick among them).  A pending
\* expiry effect runs within the frame that scheduled it, before the clock moves.
Advance ==
  /\ effect = "none"
  /\ clock + HalfSec <= MaxClock
  /\ clock' = clock + HalfSec
  /\ lastOp' = "advance"
  /\ prevPos' = pos(running)
  /\ notified' = <<>>
  /\ pauseSnap' = NoSnap
  /\ wakeGap' = 0
  /\ ranMs' = ranAfter("advance", running)
  /\ UNCHANGED <<settings, running, paused, now, raf, effect, visited,
               startSettings, edits, engVars, loadVars>>

\* the handlers are taken as callable in every state: each tests what its code
\* tests, while the view offers start only with no session and the others only
\* with one
\* a mutant: start leaves paused as it was
StartKeepsPaused ==
  /\ HandlerReady
  /\ LET first == firstPhase(settings, clock) IN
     Commit("start", first, paused, <<first.phase>>, <<pos(first)>>, NoSnap)

Start ==
  /\ HandlerReady
  /\ LET first == firstPhase(settings, clock) IN
     Commit("start", first, FALSE, <<first.phase>>, <<pos(first)>>, NoSnap)

Pause ==
  /\ HandlerReady
  /\ running # Null
  /\ ~paused
  /\ LET rem == Max(0, CeilSec(running.targetEndMs - clock)) IN
     Commit("pause", [running EXCEPT !.remaining = rem], TRUE, <<>>, visited,
            [at |-> clock, remMs |-> Max(0, running.targetEndMs - clock)])

\* a mutant: resume anchors the phase with totalForPhase, not the frozen remaining
ResumeFromTotal ==
  /\ HandlerReady
  /\ running # Null
  /\ paused
  /\ LET newTarget == clock + running.totalForPhase * MsPerSec IN
     Commit("resume",
            [running EXCEPT !.startedAtMs = clock, !.targetEndMs = newTarget],
            FALSE, <<>>, visited, pauseSnap)

\* a mutant: resume re-anchors the phase but leaves totalForPhase as it was
ResumeKeepsTotal ==
  /\ HandlerReady
  /\ running # Null
  /\ paused
  /\ LET newTarget == clock + running.remaining * MsPerSec IN
     Commit("resume",
            [running EXCEPT !.startedAtMs = clock, !.targetEndMs = newTarget],
            FALSE, <<>>, visited, pauseSnap)

\* a mutant: resume only clears paused, so the time spent paused is lost to the phase
ResumeKeepsTarget ==
  /\ HandlerReady
  /\ running # Null
  /\ paused
  /\ Commit("resume", running, FALSE, <<>>, visited, pauseSnap)

Resume ==
  /\ HandlerReady
  /\ running # Null
  /\ paused
  /\ LET newTarget == clock + running.remaining * MsPerSec IN
     Commit("resume",
            [running EXCEPT !.startedAtMs = clock, !.targetEndMs = newTarget,
                            !.totalForPhase = running.remaining],
            FALSE, <<>>, visited, pauseSnap)

\* pauseResume with no session returns at once
PauseResumeIdle ==
  /\ HandlerReady
  /\ running = Null
  /\ Commit("pauseResume", running, paused, <<>>, visited, NoSnap)

\* a mutant: reset ends the session and leaves paused as it was
ResetKeepsPaused ==
  /\ HandlerReady
  /\ Commit("reset", Null, paused, <<>>, <<>>, NoSnap)

Reset ==
  /\ HandlerReady
  /\ Commit("reset", Null, FALSE, <<>>, <<>>, NoSnap)

\* a mutant: skip anchors the phase it enters at the clock reading stored by the
\* last tick
SkipAtStoredNow ==
  /\ HandlerReady
  /\ Commit("skip", nextPhaseUpdater(running, settings, now), paused,
            nextPhaseNotes(running, settings, now),
            nextPhaseVisited(running, settings, now), NoSnap)

Skip ==
  /\ HandlerReady
  /\ Commit("skip", nextPhaseUpdater(running, settings, clock), paused,
            nextPhaseNotes(running, settings, clock),
            nextPhaseVisited(running, settings, clock), NoSnap)

\* a mutant: back announces the phase it enters, as nextPhase does
BackNotifying ==
  /\ HandlerReady
  /\ LET prev == IF running = Null THEN running
                 ELSE computePrev(running, settings, clock) IN
     Commit("back", prev, paused,
            IF prev.phase # running.phase THEN <<prev.phase>> ELSE <<>>,
            <<>>, NoSnap)

Back ==
  /\ HandlerReady
  /\ Commit("back",
            IF running = Null THEN running ELSE computePrev(running, settings, clock),
            paused, <<>>, <<>>, NoSnap)

\* a mutant: a wake counts one frame period instead of reading the clock
TickByFrame ==
  /\ raf > 0
  /\ effect = "none"
  /\ now' = Min(clock, now + HalfSec)
  /\ effect' = IF expiryDue(running, paused, now') THEN "scheduled" ELSE "none"
  /\ lastOp' = "tick"
  /\ prevPos' = pos(running)
  /\ notified' = <<>>
  /\ pauseSnap' = NoSnap
  /\ wakeGap' = clock - now
  /\ UNCHANGED <<settings, running, paused, clock, raf, visited,
               startSettings, edits, ranMs, engVars, loadVars>>

\* a frame callback: setNow(Date.now()) and the next frame is requested; the render
\* it causes schedules the expiry effect when its condition holds
Tick ==
  /\ raf > 0
  /\ effect = "none"
  /\ now' = clock
  /\ effect' = IF expiryDue(running, paused, clock) THEN "scheduled" ELSE "none"
  /\ lastOp' = "tick"
  /\ prevPos' = pos(running)
  /\ notified' = <<>>
  /\ pauseSnap' = NoSnap
  /\ wakeGap' = clock - now
  /\ UNCHANGED <<settings, running, paused, clock, raf, visited,
               startSettings, edits, ranMs, engVars, loadVars>>

\* a mutant: the effect catches up, calling nextPhase a second time
ExpiryEffectTwice ==
  /\ effect # "none"
  /\ LET once == nextPhaseUpdater(running, settings, clock)
         next == nextPhaseUpdater(once, settings, clock) IN
     /\ running' = next
     /\ raf' = tickEffect(raf, next, paused)
     /\ effect' = IF expiryDue(next, paused, now) THEN "flushing" ELSE "none"
     /\ notified' = nextPhaseNotes(running, settings, clock)
                     \o nextPhaseNotes(once, settings, clock)
     /\ ranMs' = ranAfter("expire", next)
  /\ lastOp' = "expire"
  /\ prevPos' = pos(running)
  /\ visited' = <<>>
  /\ pauseSnap' = NoSnap
  /\ UNCHANGED <<settings, paused, now, clock, wakeGap, startSettings, edits,
               engVars, loadVars>>

\* the expiry effect runs: one call of nextPhase
ExpiryEffect ==
  /\ effect # "none"
  /\ LET next == nextPhaseUpdater(running, settings, clock) IN
     /\ running' = next
     /\ raf' = tickEffect(raf, next, paused)
     /\ effect' = IF expiryDue(next, paused, now) THEN "flushing" ELSE "none"
     /\ ranMs' = ranAfter("expire", next)
  /\ lastOp' = "expire"
  /\ prevPos' = pos(running)
  /\ notified' = nextPhaseNotes(running, settings, clock)
  /\ visited' = nextPhaseVisited(running, settings, clock)
  /\ pauseSnap' = NoSnap
  /\ UNCHANGED <<settings, paused, now, clock, wakeGap, startSettings, edits,
               engVars, loadVars>>

Next ==
  \/ Advance
  \/ Start
  \/ Pause
  \/ Resume
  \/ PauseResumeIdle
  \/ Reset
  \/ Skip
  \/ Back
  \/ Tick
  \/ ExpiryEffect

Spec == Init /\ [][Next]_vars

(* ----------------- the controller with the settings panel --------------- *)
\* the values an input of the panel hands to setSettings: a TimeInput any number
\* of seconds from 0, the NumberInput of intervals a number clamped to 1 and above
EditValues ==
  [warmupSec |-> {0, 1}, workSec |-> {0, MaxSec}, restSec |-> {0, 1},
   intervals |-> 1..MaxIntervals, cooldownSec |-> {0, MaxSec}]

InitEdit ==
  /\ Init
  /\ settings = defaultSettings

\* an onChange of the settings panel: setSettings(s => ({ ...s, field: v })).  The
\* panel is open to the user with or without a session; no dependency of the tick
\* or the expiry effect changes, so neither is re-evaluated by the render.
SetSettings ==
  /\ HandlerReady
  /\ edits < MaxEdits
  /\ \E f \in DOMAIN EditValues : \E v \in EditValues[f] :
       /\ v # settings[f]
       /\ settings' = [settings EXCEPT ![f] = v]
  /\ edits' = edits + 1
  /\ effect' = IF effect = "scheduled" THEN "flushing" ELSE "none"
  /\ startSettings' = IF running = Null THEN settings' ELSE startSettings
  /\ lastOp' = "setSettings"
  /\ prevPos' = pos(running)
  /\ notified' = <<>>
  /\ pauseSnap' = NoSnap
  /\ wakeGap' = 0
  /\ UNCHANGED <<running, paused, now, clock, raf, visited, ranMs, engVars,
               loadVars>>

NextEdit ==
  \/ Advance
  \/ Start
  \/ Pause
  \/ Resume
  \/ PauseResumeIdle
  \/ Reset
  \/ Skip
  \/ Back
  \/ Tick
  \/ ExpiryEffect
  \/ SetSettings

SpecEdit == InitEdit /\ [][NextEdit]_vars

(* ------------- the controller with fairness, time unbounded ------------ *)
\* The program uses its timestamps only through their differences, so this
\* specification keeps Date.now() at 0 and lets time pass by moving every stored
\* timestamp half a second into the past.  A timestamp older than LiveFloor is kept
\* at LiveFloor: by then it lies before every instant it is compared with.
LiveFloor == (MaxSec + 1) * MsPerSec
floorMs(ms) == Max(ms, -LiveFloor)

\* the Settings of the sessions run to their end
LiveSettings ==
  { defaultSettings,
    [defaultSettings EXCEPT !.warmupSec = 0, !.restSec = 0, !.cooldownSec = 0],
    [defaultSettings EXCEPT !.workSec = 0] }

InitLive ==
  /\ Init
  /\ settings \in LiveSettings

\* half a second of wall-clock time passes
Elapse ==
  /\ effect = "none"
  /\ running' = IF running = Null THEN running
                ELSE [running EXCEPT !.startedAtMs = floorMs(@ - HalfSec),
                                     !.targetEndMs = floorMs(@ - HalfSec)]
  /\ now' = floorMs(now - HalfSec)
  /\ lastOp' = "advance"
  /\ prevPos' = pos(running)
  /\ notified' = <<>>
  /\ pauseSnap' = NoSnap
  /\ wakeGap' = 0
  /\ UNCHANGED <<settings, paused, clock, raf, effect, visited,
               startSettings, edits, ranMs, engVars, loadVars>>

\* the start button, shown while there is no session
StartButton ==
  /\ running = Null
  /\ Start

\* a session that is started once and then left to run: the user may pause, resume
\* and skip, and uses neither back nor reset
NextLive ==
  \/ Elapse
  \/ StartButton
  \/ Pause
  \/ Resume
  \/ Skip
  \/ Tick
  \/ ExpiryEffect

\* time passes; a requested frame is called back (strongly: the loop is requested
\* anew after every resume); a pending effect runs; a pause is followed by a resume
SpecLive ==
  /\ InitLive
  /\ [][NextLive]_vars
  /\ WF_vars(Elapse)
  /\ SF_vars(Tick)
  /\ WF_vars(ExpiryEffect)
  /\ WF_vars(Resume)

(* ------------- the controller with the time a phase has run ----------- *)
\* as Init, with the unpaused time of the phase kept from 0
InitRun ==
  /\ settings \in SessionSettings
  /\ CtlInit
  /\ eng = Null
  /\ engPrev = pos(Null)
  /\ engOp = "init"
  /\ engNow = 0
  /\ engSteps = 0
  /\ engFrom = "null"
  /\ engTotal = 0
  /\ engChain = NoChain
  /\ ranMs = 0
  /\ LoadIdle
  /\ InputIdle

NextRun ==
  \/ Advance
  \/ Start
  \/ Pause
  \/ Resume
  \/ PauseResumeIdle
  \/ Reset
  \/ Skip
  \/ Back
  \/ Tick
  \/ ExpiryEffect

SpecRun == InitRun /\ [][NextRun]_vars

(* ---------------------- loading the stored Settings -------------------- *)
InitLoad ==
  /\ settings = defaultSettings
  /\ CtlInit
  /\ eng = Null
  /\ engPrev = pos(Null)
  /\ engOp = "init"
  /\ engNow = 0
  /\ engSteps = 0
  /\ engFrom = "null"
  /\ engTotal = 0
  /\ engChain = NoChain
  /\ RunIdle
  /\ stored \in StoredItems
  /\ InputIdle

\* useLocalStorage<Settings>('settings', defaultSettings) at the first render
Load ==
  /\ lastOp = "init"
  /\ settings' = useLocalStorage(stored, defaultSettings)
  /\ lastOp' = "load"
  /\ UNCHANGED <<running, paused, now, clock, raf, effect, prevPos, notified,
               visited, pauseSnap, wakeGap, startSettings, edits, ranMs, engVars,
               loadVars>>

NextLoad ==
  \/ Load

SpecLoad == InitLoad /\ [][NextLoad]_vars

(* ---------------------- typing in the settings panel ------------------- *)
InitInput ==
  /\ settings = defaultSettings
  /\ CtlInit
  /\ eng = Null
  /\ engPrev = pos(Null)
  /\ engOp = "init"
  /\ engNow = 0
  /\ engSteps = 0
  /\ engFrom = "null"
  /\ engTotal = 0
  /\ engChain = NoChain
  /\ RunIdle
  /\ LoadIdle
  /\ typed \in [min : TimeTexts, sec : TimeTexts, intervals : NumberTexts]
  /\ entered = [by |-> "none", halves |-> 0]

\* TimeInput: onChange(secondsFrom(mm, ss))
TimeInputChange ==
  /\ entered' = [by |-> "TimeInput", halves |-> 2 * secondsFrom(typed.min, typed.sec)]
  /\ UNCHANGED <<settings, ctlVars, engVars, stored, typed>>

\* NumberInput: onChange(Math.max(min, Math.min(max, Number(e.target.value))))
NumberInputChange ==
  /\ entered' = [by |-> "NumberInput", halves |-> clampIntervals(typed.intervals)]
  /\ UNCHANGED <<settings, ctlVars, engVars, stored, typed>>

NextInput ==
  \/ TimeInputChange
  \/ NumberInputChange

SpecInput == InitInput /\ [][NextInput]_vars

(* ------------------- the engine functions on their own ------------------ *)
InitEngine ==
  /\ settings \in SettingsSet
  /\ CtlInit
  /\ eng \in EngInputs
  /\ engPrev = pos(Null)
  /\ engOp = "init"
  /\ engNow = 0
  /\ engSteps = 0
  /\ engFrom = eng.phase
  /\ engTotal = 0
  /\ engChain = NoChain
  /\ RunIdle
  /\ LoadIdle
  /\ InputIdle

EngFirst ==
  /\ \E t \in EngTimes :
       /\ eng' = firstPhase(settings, t)
       /\ engNow' = t
  /\ engPrev' = pos(eng)
  /\ engOp' = "firstPhase"
  /\ engSteps' = 0
  /\ engFrom' = eng'.phase
  /\ engTotal' = 0
  /\ engChain' = [first |-> TRUE, sum |-> eng'.totalForPhase]
  /\ UNCHANGED <<settings, loadVars, ctlVars>>

EngNext ==
  /\ engSteps < MaxSteps
  /\ \E t \in EngTimes :
       /\ eng' = computeNext(eng, settings, t)
       /\ engNow' = t
  /\ engPrev' = pos(eng)
  /\ engOp' = "computeNext"
  /\ engSteps' = engSteps + 1
  /\ engTotal' = 0
  /\ engChain' = IF engChain.first
                 THEN [engChain EXCEPT !.sum = @ + eng'.totalForPhase]
                 ELSE NoChain
  /\ UNCHANGED <<settings, loadVars, ctlVars, engFrom>>

EngPrev ==
  /\ \E t \in EngTimes :
       /\ eng' = computePrev(eng, settings, t)
       /\ engNow' = t
  /\ engPrev' = pos(eng)
  /\ engOp' = "computePrev"
  /\ engSteps' = 0
  /\ engFrom' = eng'.phase
  /\ engTotal' = 0
  /\ engChain' = NoChain
  /\ UNCHANGED <<settings, loadVars, ctlVars>>

EngTotal ==
  /\ engTotal' = totalDuration(settings)
  /\ engOp' = "totalDuration"
  /\ engPrev' = pos(Null)
  /\ engSteps' = 0
  /\ engFrom' = eng.phase
  /\ engChain' = NoChain
  /\ UNCHANGED <<settings, loadVars, ctlVars, eng, engNow>>

NextEngine ==
  \/ EngFirst
  \/ EngNext
  \/ EngPrev
  \/ EngTotal

SpecEngine == InitEngine /\ [][NextEngine]_vars

(* ------------------------------ claims --------------------------------- *)
\* the configured duration of a phase
phaseSecs(ph, s) ==
  CASE ph = "warmup" -> s.warmupSec
    [] ph = "work" -> s.workSec
    [] ph = "rest" -> s.restSec
    [] ph = "cooldown" -> s.cooldownSec
    [] OTHER -> 0

\* a visited position as the scenarios write it: the index counts for work and rest only
Label(p) == IF p[1] \in {"work", "rest"} THEN p ELSE <<p[1]>>
Labels(seq) == [i \in 1..Len(seq) |-> Label(seq[i])]
IsPrefix(a, b) == Len(a) <= Len(b) /\ \A i \in 1..Len(a) : a[i] = b[i]

\* work0, rest0, ..., work(n-1), rest(n-1), done
WorkRestSeq(n) ==
  [i \in 1..(2 * n + 1) |->
     IF i = 2 * n + 1 THEN <<"done">>
     ELSE IF i % 2 = 1 THEN <<"work", (i - 1) \div 2>>
     ELSE <<"rest", (i - 2) \div 2>>]

\* warmup, work0, ..., work(n-1), cooldown, done
WorkOnlySeq(n) ==
  [i \in 1..(n + 3) |->
     IF i = 1 THEN <<"warmup">>
     ELSE IF i <= n + 1 THEN <<"work", i - 2>>
     ELSE IF i = n + 2 THEN <<"cooldown">>
     ELSE <<"done">>]

\* the transition table of the specification, first matching row first
TableRows(idx, s) ==
  << [from |-> "warmup", when |-> s.intervals > 0 /\ s.workSec > 0, to |-> "work", index |-> 0],
     [from |-> "warmup", when |-> s.cooldownSec > 0, to |-> "cooldown", index |-> idx],
     [from |-> "warmup", when |-> TRUE, to |-> "done", index |-> idx],
     [from |-> "work", when |-> s.restSec > 0, to |-> "rest", index |-> idx],
     [from |-> "work", when |-> idx + 1 < s.intervals, to |-> "work", index |-> idx + 1],
     [from |-> "work", when |-> s.cooldownSec > 0, to |-> "cooldown", index |-> idx],
     [from |-> "work", when |-> TRUE, to |-> "done", index |-> idx],
     [from |-> "rest", when |-> idx + 1 < s.intervals, to |-> "work", index |-> idx + 1],
     [from |-> "rest", when |-> s.cooldownSec > 0, to |-> "cooldown", index |-> idx],
     [from |-> "rest", when |-> TRUE, to |-> "done", index |-> idx],
     [from |-> "cooldown", when |-> TRUE, to |-> "done", index |-> idx],
     [from |-> "done", when |-> TRUE, to |-> "done", index |-> idx] >>

TablePhases == {"warmup", "work", "rest", "cooldown", "done"}

TableNext(ph, idx, s) ==
  LET rows == TableRows(idx, s)
      hit(k) == rows[k].from = ph /\ rows[k].when
      k == CHOOSE k \in 1..Len(rows) : hit(k) /\ \A j \in 1..(k - 1) : ~hit(j)
  IN  Label(<<rows[k].to, rows[k].index>>)

\* C1: with warmupSec = 0, cooldownSec = 0, workSec > 0, restSec > 0 and
\* intervals = n >= 1, a session advanced by skip or natural expiry alone visits
\* work0, rest0, ..., work(n-1), rest(n-1), done in that order: what it has visited
\* is always an initial part of that sequence ending at the current phase, and it is
\* the whole sequence once the phase is done, so a rest follows the last work.
C1_WorkRestOrder ==
  ( /\ settings.warmupSec = 0
    /\ settings.cooldownSec = 0
    /\ settings.workSec > 0
    /\ settings.restSec > 0
    /\ settings.intervals >= 1
    /\ visited # <<>> )
  => /\ IsPrefix(Labels(visited), WorkRestSeq(settings.intervals))
     /\ Label(pos(running)) = Label(visited[Len(visited)])
     /\ (running.phase = "done" => Len(visited) = 2 * settings.intervals + 1)

C1_Witness ==
  /\ settings.warmupSec = 0
  /\ settings.cooldownSec = 0
  /\ settings.workSec > 0
  /\ settings.restSec > 0
  /\ settings.intervals = MaxIntervals
  /\ running.phase = "done"
  /\ Labels(visited) = WorkRestSeq(MaxIntervals)
  /\ visited[Len(visited) - 1] = <<"rest", MaxIntervals - 1>>

\* C2: with restSec = 0, warmupSec > 0, workSec > 0, cooldownSec > 0 and
\* intervals = n >= 1, a session advanced by skip or natural expiry alone visits
\* warmup, work0, ..., work(n-1), cooldown, done in that order, and the session is
\* never in the rest phase.
C2_NoRestOrder ==
  ( /\ settings.restSec = 0
    /\ settings.warmupSec > 0
    /\ settings.workSec > 0
    /\ settings.cooldownSec > 0
    /\ settings.intervals >= 1 )
  => /\ running.phase # "rest"
     /\ visited # <<>> =>
          /\ IsPrefix(Labels(visited), WorkOnlySeq(settings.intervals))
          /\ Label(pos(running)) = Label(visited[Len(visited)])
          /\ (running.phase = "done" => Len(visited) = settings.intervals + 3)

C2_Witness ==
  /\ settings.restSec = 0
  /\ settings.warmupSec > 0
  /\ settings.workSec > 0
  /\ settings.cooldownSec > 0
  /\ settings.intervals = MaxIntervals
  /\ running.phase = "done"
  /\ Labels(visited) = WorkOnlySeq(MaxIntervals)

\* C3: computeNext applied again and again from a warmup state is at done after at
\* most 2*intervals + 3 applications, and an application of computeNext returns the
\* phase and intervalIndex of its argument only when the argument is done.
C3_BoundedTermination ==
  /\ (engFrom = "warmup" /\ engSteps >= 2 * settings.intervals + 3)
       => eng.phase = "done"
  /\ (engOp = "computeNext" /\ pos(eng) = engPrev) => engPrev[1] = "done"

C3_Witness ==
  /\ engFrom = "warmup"
  /\ settings.intervals = MaxIntervals
  /\ settings.workSec > 0
  /\ settings.restSec > 0
  /\ settings.cooldownSec > 0
  /\ engOp = "computeNext"
  /\ engSteps = 2 * MaxIntervals + 2
  /\ eng.phase = "done"
  /\ engPrev[1] = "cooldown"

\* C4: the claim as stated: when the four durations are all zero firstPhase returns
\* done with totalForPhase 0, and whenever firstPhase returns done,
\* totalDuration(settings) is 0.
C4_FirstPhaseDoneLeavesNothing ==
  engOp = "firstPhase" =>
    /\ ( /\ settings.warmupSec = 0
         /\ settings.workSec = 0
         /\ settings.restSec = 0
         /\ settings.cooldownSec = 0 )
         => (eng.phase = "done" /\ eng.totalForPhase = 0)
    /\ eng.phase = "done" => totalDuration(settings) = 0

\* C5: totalDuration(settings) = warmupSec + intervals*(workSec + restSec) +
\* cooldownSec for non-negative integer fields, zeros included.
C5_TotalDurationFormula ==
  engOp = "totalDuration" =>
    engTotal = settings.warmupSec
               + settings.intervals * (settings.workSec + settings.restSec)
               + settings.cooldownSec

C5_Witness ==
  /\ engOp = "totalDuration"
  /\ settings.warmupSec = 0
  /\ settings.restSec = 1
  /\ settings.workSec = MaxSec
  /\ settings.intervals = MaxIntervals
  /\ settings.cooldownSec = 0
  /\ engTotal = MaxIntervals * (MaxSec + 1)

\* C6: computeNext returns the phase, and for work and rest the intervalIndex, of
\* the first matching row of the transition table, with startedAtMs = now and
\* targetEndMs = now + (configured duration of the phase entered) * 1000.
C6_TransitionTable ==
  (engOp = "computeNext" /\ engPrev[1] \in TablePhases) =>
    LET to == TableNext(engPrev[1], engPrev[2], settings) IN
    /\ Label(pos(eng)) = to
    /\ eng.startedAtMs = engNow
    /\ eng.targetEndMs = engNow + phaseSecs(to[1], settings) * MsPerSec

C6_Witness ==
  /\ engOp = "computeNext"
  /\ engPrev = <<"rest", 0>>
  /\ settings.intervals = MaxIntervals
  /\ settings.workSec = MaxSec
  /\ settings.restSec = 1
  /\ pos(eng) = <<"work", 1>>
  /\ engNow = MsPerSec
  /\ eng.targetEndMs = MsPerSec + MaxSec * MsPerSec

\* the milliseconds left to targetEndMs at the wall clock, none once it has passed
leftMs(run) == Max(0, run.targetEndMs - clock)

\* C7: a pause followed at the same instant by the resume leaves the milliseconds
\* remaining to targetEndMs within one second of what they were before the pause.
C7_PauseResumeKeepsRemaining ==
  (lastOp = "resume" /\ pauseSnap.at = clock) =>
    /\ leftMs(running) - pauseSnap.remMs < MsPerSec
    /\ pauseSnap.remMs - leftMs(running) < MsPerSec

C7_Witness ==
  /\ lastOp = "resume"
  /\ pauseSnap.at = clock
  /\ pauseSnap.remMs = HalfSec
  /\ leftMs(running) = MsPerSec
  /\ running.phase = "work"

\* C8: at a wake of an unpaused session the remaining seconds shown equal
\* max(0, ceil((targetEndMs - wall clock)/1000)), however long ago the wake before
\* it was.
C8_WakeShowsWallClock ==
  lastOp = "tick" =>
    remainingOf(running, now) = Max(0, CeilSec(running.targetEndMs - clock))

C8_Witness ==
  /\ lastOp = "tick"
  /\ ~paused
  /\ running.phase = "work"
  /\ running.totalForPhase = MaxSec
  /\ wakeGap >= MsPerSec + HalfSec
  /\ clock - running.startedAtMs = wakeGap
  /\ remainingOf(running, now) = MaxSec - 1

\* C9: the expiry effect of a wake that found the phase expired makes exactly one
\* transition of the table, whatever the length of the suspension before the wake,
\* and the phase entered starts at the wake's clock reading with its full configured
\* duration.
C9_OneTransitionPerWake ==
  (lastOp = "expire" /\ prevPos[1] \notin {"null", "done"}) =>
    /\ Label(pos(running)) = TableNext(prevPos[1], prevPos[2], settings)
    /\ running.startedAtMs = now
    /\ running.totalForPhase = phaseSecs(running.phase, settings)
    /\ running.targetEndMs = now + phaseSecs(running.phase, settings) * MsPerSec

C9_Witness ==
  /\ lastOp = "expire"
  /\ prevPos = <<"warmup", 0>>
  /\ pos(running) = <<"work", 0>>
  /\ wakeGap >= (settings.warmupSec + settings.workSec) * MsPerSec
  /\ running.startedAtMs = clock
  /\ running.targetEndMs = clock + settings.workSec * MsPerSec

C11_SilentHandlers ==
  lastOp \in {"pause", "resume", "pauseResume", "back", "reset"} => notified = <<>>

C11_Witness ==
  /\ lastOp = "back"
  /\ prevPos = <<"work", 1>>
  /\ pos(running) = <<"rest", 0>>
  /\ notified = <<>>

\* C12: at most one frame callback of the polling loop is pending in any state, and
\* one is pending only while a session exists and is not paused; after pause or
\* reset none is pending, and after start or resume exactly one is.
C12_OneLoopWhileRunning ==
  /\ raf <= 1
  /\ raf > 0 => (running # Null /\ ~paused)
  /\ lastOp \in {"pause", "reset"} => raf = 0
  /\ lastOp \in {"start", "resume"} => raf = 1

C12_Witness ==
  /\ lastOp = "resume"
  /\ running.phase = "work"
  /\ running.totalForPhase < settings.workSec
  /\ running.startedAtMs = clock
  /\ raf = 1

\* C13: once the phase is done the polling loop has stopped: while the session stays
\* in done no frame callback is pending.
C13_LoopStopsAtDone ==
  (running # Null /\ running.phase = "done") => raf = 0

\* C14: skip has the effect of a natural expiry: from any session state and with any
\* Settings, a skip and an expiry effect taken at the same clock reading leave the
\* same Running value, the one nextPhase's updater gives at that reading, and make
\* the same calls of the notification hook.
C14_SkipLikeExpiry ==
  [][lastOp' \in {"skip", "expire"} =>
       /\ running' = nextPhaseUpdater(running, settings, clock)
       /\ notified' = nextPhaseNotes(running, settings, clock)]_vars

C14_Witness ==
  /\ lastOp = "skip"
  /\ prevPos = <<"work", 0>>
  /\ pos(running) = <<"rest", 0>>
  /\ notified = <<"rest">>
  /\ now < clock
  /\ running.startedAtMs = clock
  /\ running.targetEndMs = clock + settings.restSec * MsPerSec

C16_IndexInRange ==
  running.phase \in {"work", "rest"} =>
    (0 <= running.intervalIndex /\ running.intervalIndex < settings.intervals)

C16_Witness ==
  /\ lastOp = "back"
  /\ prevPos[1] = "cooldown"
  /\ settings.intervals = MaxIntervals
  /\ pos(running) = <<"work", MaxIntervals - 1>>

\* C17: Settings do not change while a session exists: from a start to the next
\* reset the Settings are those start used, so every skip, natural expiry and back
\* is computed from them.
C17_SettingsFixedInSession ==
  /\ running # Null => settings = startSettings
  /\ (lastOp \in {"skip", "expire", "back"} /\ prevPos[1] # "null")
       => settings = startSettings

\* C18: computePrev from work at intervalIndex i > 0 gives rest at index i - 1 when
\* restSec > 0 and work at index i - 1 when restSec = 0, and the phase entered has
\* its full configured duration from the instant of the call.
C18_BackFromLaterWork ==
  (engOp = "computePrev" /\ engPrev[1] = "work" /\ engPrev[2] > 0) =>
    /\ pos(eng) = <<IF settings.restSec > 0 THEN "rest" ELSE "work", engPrev[2] - 1>>
    /\ eng.totalForPhase = phaseSecs(eng.phase, settings)
    /\ eng.remaining = phaseSecs(eng.phase, settings)
    /\ eng.startedAtMs = engNow
    /\ eng.targetEndMs = engNow + phaseSecs(eng.phase, settings) * MsPerSec

C18_Witness ==
  /\ engOp = "computePrev"
  /\ engPrev = <<"work", MaxIntervals>>
  /\ settings.restSec = MaxSec
  /\ pos(eng) = <<"rest", MaxIntervals - 1>>
  /\ eng.totalForPhase = MaxSec

\* C19: computePrev from cooldown gives work at index intervals - 1 when
\* intervals > 0 and workSec > 0, else warmup when warmupSec > 0, else cooldown
\* again; in each case with the full configured duration from the instant of the
\* call.
C19_BackFromCooldown ==
  (engOp = "computePrev" /\ engPrev[1] = "cooldown") =>
    /\ IF settings.intervals > 0 /\ settings.workSec > 0
          THEN pos(eng) = <<"work", settings.intervals - 1>>
        ELSE IF settings.warmupSec > 0 THEN eng.phase = "warmup"
        ELSE eng.phase = "cooldown"
    /\ eng.totalForPhase = phaseSecs(eng.phase, settings)
    /\ eng.remaining = phaseSecs(eng.phase, settings)
    /\ eng.startedAtMs = engNow
    /\ eng.targetEndMs = engNow + phaseSecs(eng.phase, settings) * MsPerSec

C19_Witness ==
  /\ engOp = "computePrev"
  /\ engPrev[1] = "cooldown"
  /\ settings.intervals = MaxIntervals
  /\ settings.workSec = MaxSec
  /\ pos(eng) = <<"work", MaxIntervals - 1>>
  /\ eng.targetEndMs = engNow + MaxSec * MsPerSec

\* C20: computePrev from warmup, done or idle behaves like firstPhase: for every
\* Settings the phase, intervalIndex and duration it returns equal those
\* firstPhase(settings) returns.
C20_BackRestartsLikeFirstPhase ==
  (engOp = "computePrev" /\ engPrev[1] \in {"warmup", "done", "idle"}) =>
    /\ pos(eng) = pos(firstPhase(settings, engNow))
    /\ eng.totalForPhase = firstPhase(settings, engNow).totalForPhase
    /\ eng.remaining = firstPhase(settings, engNow).remaining

\* every duration of the Settings is zero
AllZero(s) ==
  s.warmupSec = 0 /\ s.workSec = 0 /\ s.restSec = 0 /\ s.cooldownSec = 0

\* C21: for every Settings of non-negative integers and each of the six phases,
\* computeNext and computePrev return a Running value with a valid phase; and
\* with every duration zero, firstPhase (start) returns done with nothing left, and
\* computeNext (skip, expiry) and computePrev (back) applied to done return done.
C21_TotalAndDegenerate ==
  /\ engOp \in {"firstPhase", "computeNext", "computePrev"} =>
       /\ eng.phase \in Phases
       /\ eng.intervalIndex >= 0
       /\ eng.totalForPhase >= 0
       /\ eng.targetEndMs = eng.startedAtMs + eng.totalForPhase * MsPerSec
  /\ (AllZero(settings) /\ engOp = "firstPhase") =>
       (eng.phase = "done" /\ eng.remaining = 0)
  /\ (AllZero(settings) /\ engOp \in {"computeNext", "computePrev"}
        /\ engPrev[1] = "done") =>
       (eng.phase = "done" /\ eng.remaining = 0)

C21_Witness ==
  /\ AllZero(settings)
  /\ settings.intervals = MaxIntervals
  /\ engOp = "computePrev"
  /\ engPrev[1] = "done"
  /\ eng.phase = "done"

\* C22: from any state (no session, running, paused, done) reset leaves no session
\* and paused = false, and start leaves the session firstPhase(settings) anchored at
\* the instant of the start with paused = false, nothing of an earlier session kept.
C22_StartAndResetFromAnyState ==
  /\ lastOp = "reset" => (running = Null /\ ~paused)
  /\ lastOp = "start" => (running = firstPhase(settings, clock) /\ ~paused)

C22_Witness ==
  /\ lastOp = "start"
  /\ prevPos = <<"rest", 1>>
  /\ clock > 0
  /\ running = firstPhase(settings, clock)
  /\ running.phase = "warmup"
  /\ ~paused

\* C23: after start, if the session is never left paused, never reset and back is
\* never used, and time and wakes keep occurring, the session eventually reaches
\* done, and once in done it stays there.
C23_EventuallyDone ==
  /\ (running # Null) ~> (running.phase = "done")
  /\ [][running.phase = "done" => running'.phase = "done"]_vars

\* C23 amended: if moreover the session is paused only finitely often, it
\* eventually reaches done, and once in done it stays there.
C23_EventuallyDoneFinitePauses ==
  /\ <>[](lastOp # "pause") => ((running # Null) ~> (running.phase = "done"))
  /\ [][running.phase = "done" => running'.phase = "done"]_vars

C23_Witness ==
  /\ settings = defaultSettings
  /\ running.phase = "done"
  /\ lastOp = "expire"
  /\ prevPos[1] = "cooldown"
  /\ Len(visited) = 2 * MaxIntervals + 3

\* C24: loading the stored Settings never fails: with nothing stored or with a text
\* that cannot be parsed the Settings are the defaults, and a stored object that
\* lacks a field gives the default value for that field.
C24_LoadFallsBackToDefaults ==
  lastOp = "load" =>
    /\ stored.kind # "object" => settings = defaultSettings
    /\ stored.kind = "object" =>
         \A f \in Fields :
           /\ f \in DOMAIN settings
           /\ settings[f] = IF f \in DOMAIN stored.value THEN stored.value[f]
                             ELSE defaultSettings[f]

\* C25: while the session is paused no natural expiry takes place, however far the
\* wall clock is past targetEndMs: a step from a paused state changes the phase or
\* the intervalIndex only if it is a skip, a back, a reset or a start.
C25_NoExpiryWhilePaused ==
  [][(paused /\ pos(running') # pos(running)) =>
       lastOp' \in {"skip", "back", "reset", "start"}]_vars

C27_NoZeroStageEntered ==
  /\ (running # Null /\ running.phase # "done") =>
       phaseSecs(running.phase, settings) > 0
  /\ (lastOp \in {"start", "skip", "expire", "back"} /\ running # Null
        /\ running.phase # "done") =>
       running.totalForPhase = phaseSecs(running.phase, settings)

C27_Witness ==
  /\ lastOp = "back"
  /\ prevPos[1] = "cooldown"
  /\ settings.workSec = 0
  /\ settings.intervals = MaxIntervals
  /\ running.phase = "warmup"
  /\ running.totalForPhase = settings.warmupSec

\* a number of halves is whole and lies between lo and hi
WholeWithin(h, lo, hi) == h % 2 = 0 /\ lo <= h \div 2 /\ h \div 2 <= hi

\* C28: the values typed in the settings panel are clamped before they reach the
\* engine: secondsFrom gives a whole number in [0, 359999] for any minutes and
\* seconds text, a negative entry counting as 0, and the intervals input hands on a
\* whole number in [1, 50].
C28_InputsClamped ==
  /\ entered.by = "TimeInput" =>
       /\ WholeWithin(entered.halves, 0, MaxSeconds)
       /\ (typed.min.halves < 0 /\ typed.sec.halves < 0) => entered.halves = 0
  /\ entered.by = "NumberInput" =>
       WholeWithin(entered.halves, IntervalsMin, IntervalsMax)

\* C29: in every state with a session the remaining seconds shown,
\* max(0, ceil((targetEndMs - now)/1000)) with now the clock reading stored last,
\* lie between 0 and totalForPhase, right after start, after a skip or a back while
\* paused, and right after resume included.
C29_ShownRemainingWithinTotal ==
  running # Null =>
    /\ 0 <= remainingOf(running, now)
    /\ remainingOf(running, now) <= running.totalForPhase

\* C30: for every Settings of non-negative integers, the totalForPhase of the phases
\* gone through from start to done by natural expiry alone, firstPhase and then
\* computeNext until done, add up to totalDuration(settings), the total shown.
C30_PhasesSumToTotalDuration ==
  (engChain.first /\ eng.phase = "done") => engChain.sum = totalDuration(settings)

\* C31: a phase never ends by natural expiry before it has run unpaused for its
\* configured duration: when the expiry effect moves the session on, the phase it
\* leaves has spent at least that duration unpaused since it was entered; and a
\* pause/resume pair lengthens that time by less than one second: the seconds a
\* pause captures exceed the time then left by less than one second, and the resume
\* leaves exactly the captured seconds to run.
C31_RunsConfiguredDuration ==
  [][/\ (lastOp' = "expire" /\ pos(running') # pos(running)) =>
          ranMs >= phaseSecs(running.phase, settings) * MsPerSec
     /\ lastOp' = "pause" =>
          /\ running'.remaining * MsPerSec >= leftMs(running)
          /\ running'.remaining * MsPerSec - leftMs(running) < MsPerSec
     /\ lastOp' = "resume" =>
          running'.targetEndMs - clock = running.remaining * MsPerSec]_vars

\* C32: while the session is paused, and apart from skip, back, reset and start, the
\* remaining seconds shown, max(0, ceil((targetEndMs - now)/1000)) with now the clock
\* reading stored last, stay as they are while the wall clock advances, and they are
\* the seconds the pause captured.
C32_PausedShowsCaptured ==
  [][/\ (paused /\ paused' /\ lastOp' \notin {"skip", "back", "reset", "start"}) =>
          remainingOf(running', now') = remainingOf(running, now)
     /\ lastOp' = "pause" =>
          remainingOf(running', now') = running'.remaining]_vars

C34_TotalForPhasePositive ==
  running # Null => running.totalForPhase > 0

\* C35: a skip issued when the phase has expired on the wall clock and the expiry
\* has not been handled yet makes one transition in all: the session is moved on by
\* the skip, one computeNext step, and the expiry handler that runs after it moves
\* it no further.
C35_SkipAndExpiryOnce ==
  [][(lastOp = "skip" /\ lastOp' = "expire") => pos(running') = pos(running)]_vars

\* C36: paused implies that there is a session: in every state with no session the
\* controller is not paused; and pauseResume invoked with no session changes
\* nothing: no session appears, paused stays false, no frame is requested and no
\* effect is scheduled.
C36_PausedOnlyWithSession ==
  [][/\ running' = Null => ~paused'
     /\ lastOp' = "pauseResume" =>
          /\ running = Null
          /\ <<settings', running', paused', now', raf', effect'>>
               = <<settings, running, paused, now, raf, effect>>]_vars

\* pauseResume was invoked with no session, one second after the page was opened
C36_Witness ==
  /\ lastOp = "pauseResume"
  /\ running = Null
  /\ ~paused
  /\ clock = MsPerSec
  /\ raf = 0

====
